---- MODULE Spec2Model ----
(***************************************************************************)
(* calsun: sunrise/sunset calendar service.                                *)
(*                                                                         *)
(* services/sun.go  : GetSunTimes, newSunEvent, GetSunTimesRange,          *)
(*                    radToDeg, DaysUntilNextSolstice, GetTimezone         *)
(* handlers/calendar.go : parseCalendarParams, CalendarHandler,            *)
(*                    calendarName, createSunEvent, buildDescription,      *)
(*                    generateUID                                          *)
(*                                                                         *)
(* Specifications: SpecSolstice, SpecSun and SpecDescribe apply one        *)
(* function to every input; SpecHandler serves one request; SpecConcurrent *)
(* serves two at the same time, step by step.                              *)
(*                                                                         *)
(* A time.Time is a record [unix, off]: seconds since 1970-01-01T00:00:00Z *)
(* and the offset east of UTC, in seconds, of the location it carries.     *)
(* Year(), Month(), Day() read the calendar in that location, as Go does.  *)
(* A text is the sequence of the pieces it is printed from.                *)
(* A float64 is a record [kind, v]: kind "num" with v in 1/100000, or one  *)
(* of the kinds "nan", "+inf", "-inf".                                     *)
(***************************************************************************)
EXTENDS Integers, Sequences, FiniteSets, TLC

VARIABLES
    pc,          \* "call" before the function under call ran, "done" after
    fn,          \* the function that ran ("" before)
    date,        \* argument of DaysUntilNextSolstice
    solstice,    \* its result: [days, season]
    lat, lng,    \* coordinate arguments, in 1/100000 degree
    startDate,   \* argument of GetSunTimes and GetSunTimesRange
    days,        \* argument of GetSunTimesRange
    lib,         \* what the external libraries answered during the call
    results,     \* the []DaySunTimes returned
    tz,          \* the *time.Location GetTimezone returned
    query,       \* r.URL.Query() of the request CalendarHandler serves
    resp,        \* what CalendarHandler wrote to the http.ResponseWriter
    calls,       \* the calls CalendarHandler made into the core
    cal,         \* the calendar CalendarHandler built
    args,        \* arguments of createSunEvent
    entry,       \* the calendar entry createSunEvent returned
    world,       \* what the libraries and the clock answer to whoever asks
    inflight     \* the requests served at the same time, each with its locals

vars == <<pc, fn, date, solstice, lat, lng, startDate, days, lib, results, tz,
          query, resp, calls, cal, args, entry, world, inflight>>

solVars == <<date, solstice>>
sunVars == <<lat, lng, startDate, days, lib, results, tz>>
reqVars == <<query, resp, calls, cal>>
evVars  == <<args, entry>>
conVars == <<world, inflight>>

-----------------------------------------------------------------------------
(* Bounds *)

\* number of calendar years, starting at BaseYear, the dates are drawn from
NumYears == 2
\* zone offsets range over -MaxOffsetHours .. MaxOffsetHours whole hours
MaxOffsetHours == 1
\* largest day count given to GetSunTimesRange
MaxRangeDays == 3
\* the library's angles are the multiples of pi / PiSteps
PiSteps == 2

\* first year of the dates (the year of the dates in TestDaysUntilNextSolstice)
BaseYear == 2024

-----------------------------------------------------------------------------
(* float64 *)

\* the float64 nearest x / 100000: one decimal more than "%.4f" prints
Num(x) == [kind |-> "num", v |-> x]
NaN    == [kind |-> "nan", v |-> 0]
PosInf == [kind |-> "+inf", v |-> 0]
NegInf == [kind |-> "-inf", v |-> 0]

\* f < n and f > n for a float64 f and a whole number n; false when f is NaN
FloatLess(f, n) ==
    CASE f.kind = "num"  -> f.v < n * 100000
      [] f.kind = "-inf" -> TRUE
      [] OTHER           -> FALSE

FloatGreater(f, n) ==
    CASE f.kind = "num"  -> f.v > n * 100000
      [] f.kind = "+inf" -> TRUE
      [] OTHER           -> FALSE

-----------------------------------------------------------------------------
(* package time: the civil calendar *)

SecondsPerDay == 86400

isLeap(year) == year % 4 = 0 /\ (year % 100 # 0 \/ year % 400 = 0)

\* days in month m of year y
daysIn(m, year) ==
    IF m = 2 THEN (IF isLeap(year) THEN 29 ELSE 28)
    ELSE IF m \in {4, 6, 9, 11} THEN 30 ELSE 31

\* days since 1970-01-01 of the civil date (y, m, d); linear in d, so a day
\* past the end of the month normalises into the following months (time.Date)
daysSinceEpoch(y, m, d) ==
    LET yy  == IF m <= 2 THEN y - 1 ELSE y
        era == yy \div 400
        yoe == yy - era * 400
        mp  == IF m > 2 THEN m - 3 ELSE m + 9
        doy == (153 * mp + 2) \div 5 + d - 1
        doe == yoe * 365 + yoe \div 4 - yoe \div 100 + doy
    IN  era * 146097 + doe - 719468

\* the civil date of day number n (days since 1970-01-01)
civil(n) ==
    LET z   == n + 719468
        era == z \div 146097
        doe == z - era * 146097
        yoe == (doe - doe \div 1460 + doe \div 36524 - doe \div 146096) \div 365
        doy == doe - (365 * yoe + yoe \div 4 - yoe \div 100)
        mp  == (5 * doy + 2) \div 153
        d   == doy - (153 * mp + 2) \div 5 + 1
        m   == IF mp < 10 THEN mp + 3 ELSE mp - 9
        y   == yoe + era * 400 + (IF m <= 2 THEN 1 ELSE 0)
    IN  [year |-> y, month |-> m, day |-> d]

\* time.Date(year, month, day, hour, min, sec, 0, loc), loc at offset off
Date(year, month, day, hour, min, sec, off) ==
    [unix |-> daysSinceEpoch(year, month, day) * SecondsPerDay
              + hour * 3600 + min * 60 + sec - off,
     off  |-> off]

\* the wall clock of t in its own location, in seconds
wall(t) == t.unix + t.off

Year(t)  == civil(wall(t) \div SecondsPerDay).year
Month(t) == civil(wall(t) \div SecondsPerDay).month
Day(t)   == civil(wall(t) \div SecondsPerDay).day
Clock(t) == wall(t) % SecondsPerDay

\* t.Sub(u), in seconds
Sub(t, u) == t.unix - u.unix

\* int(x / d) on a float64: the quotient truncated toward zero
truncDiv(x, d) == IF x >= 0 THEN x \div d ELSE -((-x) \div d)

\* t.AddDate(0, 0, n): same wall clock, n civil days later, same location
AddDate(t, n) ==
    Date(Year(t), Month(t), Day(t) + n,
         Clock(t) \div 3600, (Clock(t) % 3600) \div 60, Clock(t) % 60, t.off)

-----------------------------------------------------------------------------
(* services.DaysUntilNextSolstice *)

\* int(solstice.Sub(dateNorm).Hours() / 24)
daysTo(s, dateNorm) == truncDiv(Sub(s, dateNorm), 3600 * 24)

daysToSolstice_NoRoll(year, month, dateNorm) ==
    daysTo(Date(year, month, 21, 0, 0, 0, 0), dateNorm)

daysToSolstice_RollOnDay(year, month, dateNorm) ==
    LET d == daysTo(Date(year, month, 21, 0, 0, 0, 0), dateNorm)
    IN  IF d <= 0 THEN daysTo(Date(year + 1, month, 21, 0, 0, 0, 0), dateNorm)
        ELSE d

\* days to the 21st of month in year; next year's when that has passed
daysToSolstice(year, month, dateNorm) ==
    LET d == daysTo(Date(year, month, 21, 0, 0, 0, 0), dateNorm)
    IN  IF d < 0 THEN daysTo(Date(year + 1, month, 21, 0, 0, 0, 0), dateNorm)
        ELSE d

DaysUntilNextSolstice(t) ==
    LET year         == Year(t)
        dateNorm     == Date(year, Month(t), Day(t), 0, 0, 0, 0)
        daysToSummer == daysToSolstice(year, 6, dateNorm)
        daysToWinter == daysToSolstice(year, 12, dateNorm)
    IN  IF daysToSummer <= daysToWinter
        THEN [days |-> daysToSummer, season |-> "summer"]
        ELSE [days |-> daysToWinter, season |-> "winter"]

-----------------------------------------------------------------------------
(* Inputs *)

Years == BaseYear .. BaseYear + NumYears - 1

CivilDates ==
    {<<y, m, d>> : y \in Years, m \in 1..12, d \in 1..31} \
    {c \in {<<y, m, d>> : y \in Years, m \in 1..12, d \in 29..31} :
        c[3] > daysIn(c[2], c[1])}

Offsets == {h * 3600 : h \in -MaxOffsetHours .. MaxOffsetHours}

\* times of day, in seconds: midnight, noon, the last second
Clocks == {0, 12 * 3600, 23 * 3600 + 59 * 60 + 59}

\* every instant of the UTC calendar days of Years at one of Clocks, carried in
\* every location of Offsets
Times ==
    {[unix |-> daysSinceEpoch(c[1], c[2], c[3]) * SecondsPerDay + k,
      off  |-> o] : c \in CivilDates, k \in Clocks, o \in Offsets}

NoResult == [days |-> -1, season |-> ""]

-----------------------------------------------------------------------------
(* services: SunEvent, DaySunTimes, GetSunTimes, GetSunTimesRange *)

\* the zero time.Time, 0001-01-01T00:00:00Z: it lies before every instant of
\* the model and is held as the least second the model checker can count
ZeroTime == [unix |-> -2147483647, off |-> 0]

IsZero(t) == t.unix = ZeroTime.unix

\* An angle in radians is held as a multiple of pi / PiSteps, an angle in
\* degrees as a multiple of 1 / PiSteps degree: Deg(x) is x degrees.
Deg(x) == x * PiSteps

radToDeg_Turn(rad) == rad * 360

\* rad * 180 / math.Pi
radToDeg(rad) == rad * 180

\* a nil *SunEvent
NilEvent == [nil |-> TRUE, Type |-> "", Time |-> ZeroTime, Azimuth |-> 0, Elevation |-> 0]

newSunEvent_NoZeroCheck(eventType, t, la, ln, pos) ==
    [nil       |-> FALSE,
     Type      |-> eventType,
     Time      |-> t,
     Azimuth   |-> radToDeg(pos.Azimuth) + Deg(180),
     Elevation |-> radToDeg(pos.Altitude)]

\* pos is what suncalc.GetPosition(t, lat, lng) answers
newSunEvent(eventType, t, la, ln, pos) ==
    IF IsZero(t) THEN NilEvent
    ELSE [nil       |-> FALSE,
          Type      |-> eventType,
          Time      |-> t,
          Azimuth   |-> radToDeg(pos.Azimuth) + Deg(180),
          Elevation |-> radToDeg(pos.Altitude)]

\* l.times is what suncalc.GetTimes(date, lat, lng) answers, l.pos what
\* suncalc.GetPosition answers for each of the two instants
GetSunTimes(la, ln, d, l) ==
    [Date    |-> d,
     Sunrise |-> newSunEvent("sunrise", l.times.Sunrise, la, ln, l.pos.Sunrise),
     Sunset  |-> newSunEvent("sunset", l.times.Sunset, la, ln, l.pos.Sunset)]

GetSunTimesRange_FromTomorrow(la, ln, start, n, ls) ==
    [i \in 1..n |-> GetSunTimes(la, ln, AddDate(start, i), ls[i])]

\* ls[i] is what the library answers in iteration i - 1 of the loop
GetSunTimesRange(la, ln, start, n, ls) ==
    [i \in 1..n |-> GetSunTimes(la, ln, AddDate(start, i - 1), ls[i])]

-----------------------------------------------------------------------------
(* services.GetTimezone *)

UTC == [name |-> "UTC"]
NoLocation == [name |-> ""]

GetTimezone_ReturnLoc(la, ln, l) ==
    IF l.zoneName = "" THEN UTC
    ELSE IF l.err THEN NoLocation ELSE [name |-> l.zoneName]

\* l.zoneName is what latlong.LookupZoneName(lat, lng) answers, l.err whether
\* time.LoadLocation(zoneName) fails
GetTimezone(la, ln, l) ==
    IF l.zoneName = "" THEN UTC
    ELSE IF l.err THEN UTC ELSE [name |-> l.zoneName]

-----------------------------------------------------------------------------
(* package time: locations and layouts; package fmt: verbs *)

\* day of the week of day number n, 0 for Sunday: 1970-01-01 was a Thursday
weekday(n) == (n + 4) % 7

\* the day number of the last Sunday of month m of year y
lastSunday(y, m) ==
    LET last == daysSinceEpoch(y, m, daysIn(m, y)) IN last - weekday(last)

\* seconds east of UTC of location loc at the instant unix. UTC is always at 0;
\* Europe/Copenhagen is at one hour, and at two from 01:00 UTC of the last
\* Sunday of March to 01:00 UTC of the last Sunday of October
zoneOffset(loc, unix) ==
    IF loc.name = "Europe/Copenhagen"
    THEN LET y == civil(unix \div SecondsPerDay).year
         IN  IF /\ lastSunday(y, 3) * SecondsPerDay + 3600 <= unix
                /\ unix < lastSunday(y, 10) * SecondsPerDay + 3600
             THEN 7200 ELSE 3600
    ELSE 0

\* t.In(loc): the same instant, read in loc
In(t, loc) == [unix |-> t.unix, off |-> zoneOffset(loc, t.unix)]

\* t.Add(d), d in seconds
Add(t, d) == [unix |-> t.unix + d, off |-> t.off]

Hour(t)   == Clock(t) \div 3600
Minute(t) == (Clock(t) % 3600) \div 60
Second(t) == Clock(t) % 60

\* A text is a sequence of pieces, each a string; a digit is a piece.
Digits == <<"0", "1", "2", "3", "4", "5", "6", "7", "8", "9">>

digit(n) == Digits[n + 1]

RECURSIVE decimal(_)
\* the digits of n >= 0
decimal(n) ==
    IF n < 10 THEN <<digit(n)>> ELSE decimal(n \div 10) \o <<digit(n % 10)>>

\* "%d"
fmtD(n) == IF n < 0 THEN <<"-">> \o decimal(-n) ELSE decimal(n)

\* n in 0..99 as two digits, the way a layout prints 15, 04, 05, 01 and 02
twoDigits(n) == <<digit(n \div 10), digit(n % 10)>>

\* t.Format("15:04"), t.Format("15:04:05"), t.Format("2006-01-02"): the clock
\* and the calendar of t in the location t carries
Format1504(t) == twoDigits(Hour(t)) \o <<":">> \o twoDigits(Minute(t))

Format150405(t) == Format1504(t) \o <<":">> \o twoDigits(Second(t))

Format20060102(t) ==
    decimal(Year(t)) \o <<"-">> \o twoDigits(Month(t)) \o <<"-">> \o twoDigits(Day(t))

abs(x) == IF x < 0 THEN -x ELSE x

\* "%.4f" of a float64: the nearest multiple of 0.0001 (no value of the model
\* lies halfway between two), its sign kept when it prints as -0.0000
fmtF4(f) ==
    CASE f.kind = "nan"  -> <<"NaN">>
      [] f.kind = "+inf" -> <<"+Inf">>
      [] f.kind = "-inf" -> <<"-Inf">>
      [] OTHER ->
            LET r == (abs(f.v) + 5) \div 10
            IN  (IF f.v < 0 THEN <<"-">> ELSE <<>>)
                \o decimal(r \div 10000) \o <<".">>
                \o <<digit((r \div 1000) % 10), digit((r \div 100) % 10),
                     digit((r \div 10) % 10), digit(r % 10)>>

\* "%.1f" of an angle in degrees (a multiple of 1 / PiSteps degree): the
\* nearest multiple of 0.1
fmtF1(a) ==
    LET r == (abs(a) * 20 + PiSteps) \div (2 * PiSteps)
    IN  (IF a < 0 THEN <<"-">> ELSE <<>>)
        \o decimal(r \div 10) \o <<".", digit(r % 10)>>

\* x / y and x % y on int: the quotient truncated toward zero, the remainder
\* with the sign of x
quo(x, y) == truncDiv(x, y)
rem(x, y) == x - y * truncDiv(x, y)

-----------------------------------------------------------------------------
(* handlers: generateUID, buildDescription, createSunEvent *)

generateUID_Instant(t, la, ln, eventType) ==
    <<"sha256[:8](">> \o Format150405(t) \o <<"-">> \o Format20060102(t) \o <<"-">>
        \o fmtF4(la) \o <<"-">> \o fmtF4(ln) \o <<"-", eventType, ")", "@calsun">>

\* the first 8 bytes of the SHA-256 of the data, in hex, then "@calsun"; the
\* digest is held as the data it is taken of
generateUID(t, la, ln, eventType) ==
    <<"sha256[:8](">> \o Format20060102(t) \o <<"-">>
        \o fmtF4(la) \o <<"-">> \o fmtF4(ln) \o <<"-", eventType, ")", "@calsun">>

\* strings.ToUpper(eventType[:1]) + eventType[1:]
eventTitle(eventType) ==
    CASE eventType = "sunrise" -> "Sunrise"
      [] eventType = "sunset"  -> "Sunset"

\* A *DaySunTimes is <<>> when nil and <<d>> when it points to d.
\* A description is the sequence of its lines; "" is the line <<>>.

\* the lines every description starts with
basicLines(event, la, ln, location, localTime) ==
    <<<<"Time: ">> \o Format150405(localTime),
      <<"Location: ">> \o location,
      <<"Coordinates: ">> \o fmtF4(la) \o <<", ">> \o fmtF4(ln),
      <<"Azimuth: ">> \o fmtF1(event.Azimuth) \o <<"[degree sign]">>,
      <<>>>>

dayLengthLines_NearestMinute(day) ==
    IF ~day.Sunrise.nil /\ ~day.Sunset.nil
    THEN LET dayLength == Sub(day.Sunset.Time, day.Sunrise.Time)
             hours     == truncDiv(dayLength + 30, 3600)
             minutes   == rem(truncDiv(dayLength + 30, 60), 60)
         IN  <<<<"Day length: ">> \o fmtD(hours) \o <<"h ">> \o fmtD(minutes) \o <<"m">>>>
    ELSE <<>>

\* the day length, when the day has both events
dayLengthLines(day) ==
    IF ~day.Sunrise.nil /\ ~day.Sunset.nil
    THEN LET dayLength == Sub(day.Sunset.Time, day.Sunrise.Time)
             hours     == truncDiv(dayLength, 3600)
             minutes   == rem(truncDiv(dayLength, 60), 60)
         IN  <<<<"Day length: ">> \o fmtD(hours) \o <<"h ">> \o fmtD(minutes) \o <<"m">>>>
    ELSE <<>>

deltaLine_Nearest(deltaSeconds) ==
    LET deltaMinutes == quo(2 * abs(deltaSeconds) + 60, 120)
    IN  IF deltaMinutes # 0
        THEN <<"Yesterday: ">> \o fmtD(deltaMinutes) \o <<"m ">>
                 \o <<IF deltaSeconds < 0 THEN "earlier" ELSE "later">>
        ELSE <<"Yesterday: same time">>

deltaLine_LaterWhenEarlier(deltaSeconds) ==
    LET deltaMinutes == quo(deltaSeconds, 60)
    IN  IF deltaMinutes # 0
        THEN <<"Yesterday: ">> \o fmtD(abs(deltaMinutes)) \o <<"m ">>
                 \o <<IF deltaMinutes < 0 THEN "later" ELSE "earlier">>
        ELSE <<"Yesterday: same time">>

\* the line for a difference of deltaSeconds between the two wall clocks
deltaLine(deltaSeconds) ==
    LET deltaMinutes == quo(deltaSeconds, 60)
    IN  IF deltaMinutes # 0
        THEN <<"Yesterday: ">> \o fmtD(abs(deltaMinutes)) \o <<"m ">>
                 \o <<IF deltaMinutes < 0 THEN "earlier" ELSE "later">>
        ELSE <<"Yesterday: same time">>

yesterdayLines_EitherKind(event, prevDay, localTime, loc) ==
    IF prevDay # <<>> /\ (~prevDay[1].Sunrise.nil \/ ~prevDay[1].Sunset.nil)
    THEN LET prevEvent     == IF ~prevDay[1].Sunrise.nil THEN prevDay[1].Sunrise
                              ELSE prevDay[1].Sunset
             prevLocalTime == In(prevEvent.Time, loc)
         IN  <<deltaLine(Clock(localTime) - Clock(prevLocalTime))>>
    ELSE <<>>

\* the delta from the event of the same type of the day before, when there is
\* a day before and it has that event
yesterdayLines(event, prevDay, localTime, loc) ==
    IF prevDay # <<>>
    THEN LET prevEvent == IF event.Type = "sunrise" THEN prevDay[1].Sunrise
                          ELSE prevDay[1].Sunset
         IN  IF ~prevEvent.nil
             THEN LET prevLocalTime    == In(prevEvent.Time, loc)
                      todaySeconds     == Hour(localTime) * 3600 + Minute(localTime) * 60
                                              + Second(localTime)
                      yesterdaySeconds == Hour(prevLocalTime) * 3600
                                              + Minute(prevLocalTime) * 60
                                              + Second(prevLocalTime)
                  IN  <<deltaLine(todaySeconds - yesterdaySeconds)>>
             ELSE <<>>
    ELSE <<>>

\* the days until the next solstice
solsticeLines(event) ==
    LET s == DaysUntilNextSolstice(event.Time)
    IN  IF s.days = 0
        THEN <<<<"Today is the ", s.season, " solstice!">>>>
        ELSE <<<<"Next solstice: ">> \o fmtD(s.days) \o <<" days (", s.season, ")">>>>

buildDescription_SolsticeBeforeDelta(event, day, prevDay, la, ln, location, loc) ==
    LET localTime == In(event.Time, loc)
    IN  basicLines(event, la, ln, location, localTime)
        \o dayLengthLines(day)
        \o solsticeLines(event)
        \o yesterdayLines(event, prevDay, localTime, loc)

buildDescription(event, day, prevDay, la, ln, location, loc) ==
    LET localTime == In(event.Time, loc)
    IN  basicLines(event, la, ln, location, localTime)
        \o dayLengthLines(day)
        \o yesterdayLines(event, prevDay, localTime, loc)
        \o solsticeLines(event)

createSunEvent_EndsNextHour(event, day, prevDay, la, ln, location, loc) ==
    [uid         |-> generateUID(event.Time, la, ln, event.Type),
     start       |-> event.Time,
     end         |-> Add(event.Time, 3600),
     summary     |-> <<eventTitle(event.Type), " ">> \o Format1504(event.Time),
     description |-> buildDescription(event, day, prevDay, la, ln, location, loc),
     location    |-> location]

\* the calendar entry of one event
createSunEvent(event, day, prevDay, la, ln, location, loc) ==
    [uid         |-> generateUID(event.Time, la, ln, event.Type),
     start       |-> event.Time,
     end         |-> Add(event.Time, 60),
     summary     |-> <<eventTitle(event.Type), " ">> \o Format1504(In(event.Time, loc)),
     description |-> buildDescription(event, day, prevDay, la, ln, location, loc),
     location    |-> location]

-----------------------------------------------------------------------------
(* What the external libraries can answer *)

\* suncalc.GetPosition: the azimuth is an atan2, in [-pi, pi]
Positions == [Azimuth : -PiSteps .. PiSteps, Altitude : {0}]

\* the instants suncalc.GetTimes can name for the day of d, in d's location
SunInstants(d) ==
    {[unix |-> d.unix + h * 3600, off |-> d.off] : h \in {6, 18}}

\* suncalc.GetTimes: each of the two values is an instant or the zero time
LibAnswers(d) ==
    [times : [Sunrise : {ZeroTime} \cup SunInstants(d),
              Sunset  : {ZeroTime} \cup SunInstants(d)],
     pos   : [Sunrise : Positions, Sunset : Positions]]

\* one answer for each way the two events can be present or absent
PresenceAnswer(d, rise, set) ==
    [times |-> [Sunrise |-> IF rise THEN [unix |-> d.unix + 6 * 3600, off |-> d.off]
                            ELSE ZeroTime,
                Sunset  |-> IF set THEN [unix |-> d.unix + 18 * 3600, off |-> d.off]
                            ELSE ZeroTime],
     pos   |-> [Sunrise |-> [Azimuth |-> 0, Altitude |-> 0],
                Sunset  |-> [Azimuth |-> 0, Altitude |-> 0]]]

\* the answers of the n calls a range of n days makes
RangeAnswers(start, n) ==
    {[i \in 1..n |-> PresenceAnswer(AddDate(start, i - 1), c[i][1], c[i][2])] :
        c \in [1..n -> BOOLEAN \X BOOLEAN]}

ZoneNames == {"Europe/Copenhagen"}

\* latlong.LookupZoneName finds no name, or finds one that time.LoadLocation
\* loads or fails to load
ZoneAnswers ==
    {[zoneName |-> "", err |-> FALSE]}
    \cup [zoneName : ZoneNames, err : BOOLEAN]

-----------------------------------------------------------------------------
(* Inputs of the services functions *)

\* Copenhagen (sun_test.go) and the north pole, in 1/100000 degree
Coords == {<<Num(5567610), Num(1256830)>>, <<Num(9000000), Num(0)>>}

\* midnight UTC of the last days of February, April and December, carried in
\* every location of Offsets
RangeStarts ==
    {[unix |-> daysSinceEpoch(c[1], c[2], c[3]) * SecondsPerDay, off |-> o] :
        c \in {x \in CivilDates : x[2] \in {2, 4, 12} /\ x[3] >= 28}, o \in Offsets}

IdleSol == date = Date(BaseYear, 1, 1, 0, 0, 0, 0) /\ solstice = NoResult

IdleSun ==
    /\ lat = Num(0) /\ lng = Num(0)
    /\ startDate = Date(BaseYear, 1, 1, 0, 0, 0, 0)
    /\ days = 0
    /\ lib = <<>>
    /\ results = <<>>
    /\ tz = NoLocation

IdleReq ==
    /\ query = [k \in {} |-> <<>>]
    /\ resp = [status |-> 0, contentType |-> "", disposition |-> "", body |-> <<>>]
    /\ calls = {}
    /\ cal = [name |-> <<>>, events |-> <<>>]

IdleEv ==
    /\ args = [event |-> NilEvent, day |-> <<>>, prevDay |-> <<>>,
               lat |-> Num(0), lng |-> Num(0), location |-> <<>>, loc |-> NoLocation]
    /\ entry = <<>>

IdleCon == world = <<>> /\ inflight = <<>>

-----------------------------------------------------------------------------
(* DaysUntilNextSolstice on every input *)

InitSolstice ==
    /\ pc = "call" /\ fn = ""
    /\ date \in Times
    /\ solstice = NoResult
    /\ IdleSun
    /\ IdleReq
    /\ IdleEv
    /\ IdleCon

CallDaysUntilNextSolstice ==
    /\ pc = "call"
    /\ solstice' = DaysUntilNextSolstice(date)
    /\ fn' = "DaysUntilNextSolstice"
    /\ pc' = "done"
    /\ UNCHANGED <<date, sunVars, reqVars, evVars, conVars>>

NextSolstice == CallDaysUntilNextSolstice

SpecSolstice == InitSolstice /\ [][NextSolstice]_vars

-----------------------------------------------------------------------------
(* GetSunTimes, GetSunTimesRange and GetTimezone on every input *)

InitSun ==
    /\ pc = "call" /\ fn = ""
    /\ \E c \in Coords : lat = c[1] /\ lng = c[2]
    /\ startDate \in RangeStarts
    /\ days \in 1..MaxRangeDays
    /\ lib = <<>>
    /\ results = <<>>
    /\ tz = NoLocation
    /\ IdleSol
    /\ IdleReq
    /\ IdleEv
    /\ IdleCon

CallGetSunTimes ==
    /\ pc = "call"
    /\ \E l \in LibAnswers(startDate) :
        /\ lib' = <<l>>
        /\ results' = <<GetSunTimes(lat, lng, startDate, l)>>
    /\ fn' = "GetSunTimes"
    /\ pc' = "done"
    /\ UNCHANGED <<lat, lng, startDate, days, tz, solVars, reqVars, evVars, conVars>>

CallGetSunTimesRange ==
    /\ pc = "call"
    /\ \E ls \in RangeAnswers(startDate, days) :
        /\ lib' = ls
        /\ results' = GetSunTimesRange(lat, lng, startDate, days, ls)
    /\ fn' = "GetSunTimesRange"
    /\ pc' = "done"
    /\ UNCHANGED <<lat, lng, startDate, days, tz, solVars, reqVars, evVars, conVars>>

CallGetTimezone ==
    /\ pc = "call"
    /\ \E l \in ZoneAnswers :
        /\ lib' = l
        /\ tz' = GetTimezone(lat, lng, l)
    /\ fn' = "GetTimezone"
    /\ pc' = "done"
    /\ UNCHANGED <<lat, lng, startDate, days, results, solVars, reqVars, evVars, conVars>>

NextSun ==
    \/ CallGetSunTimes
    \/ CallGetSunTimesRange
    \/ CallGetTimezone

SpecSun == InitSun /\ [][NextSun]_vars

-----------------------------------------------------------------------------
(* handlers: parseCalendarParams, calendarName, CalendarHandler *)

defaultDays == 30
maxDays == 90

\* url.Values.Get: the first value of the key, "" when the key has none
Get(q, key) == IF q[key] = <<>> THEN "" ELSE q[key][1]

\* strconv.ParseFloat(s, 64) on the values the requests carry: it reads
\* decimal numbers and the words NaN and Inf, and fails on anything else
ParseFloat(s) ==
    CASE s = "55.6761"   -> [f |-> Num(5567610), err |-> FALSE]
      [] s = "12.5683"   -> [f |-> Num(1256830), err |-> FALSE]
      [] s = "90"        -> [f |-> Num(9000000), err |-> FALSE]
      [] s = "-90"       -> [f |-> Num(-9000000), err |-> FALSE]
      [] s = "90.0001"   -> [f |-> Num(9000010), err |-> FALSE]
      [] s = "-90.0001"  -> [f |-> Num(-9000010), err |-> FALSE]
      [] s = "100"       -> [f |-> Num(10000000), err |-> FALSE]
      [] s = "180"       -> [f |-> Num(18000000), err |-> FALSE]
      [] s = "-180.0001" -> [f |-> Num(-18000010), err |-> FALSE]
      [] s = "200"       -> [f |-> Num(20000000), err |-> FALSE]
      [] s = "NaN"       -> [f |-> NaN, err |-> FALSE]
      [] s = "Inf"       -> [f |-> PosInf, err |-> FALSE]
      [] s = "-Inf"      -> [f |-> NegInf, err |-> FALSE]
      [] OTHER           -> [f |-> Num(0), err |-> TRUE]

\* strconv.Atoi(s) on the values the requests carry: it reads signed decimal
\* integers and fails on anything else
Atoi(s) ==
    CASE s = "-1"  -> [n |-> -1, err |-> FALSE]
      [] s = "0"   -> [n |-> 0, err |-> FALSE]
      [] s = "1"   -> [n |-> 1, err |-> FALSE]
      [] s = "2"   -> [n |-> 2, err |-> FALSE]
      [] s = "3"   -> [n |-> 3, err |-> FALSE]
      [] s = "7"   -> [n |-> 7, err |-> FALSE]
      [] s = "90"  -> [n |-> 90, err |-> FALSE]
      [] s = "91"  -> [n |-> 91, err |-> FALSE]
      [] s = "100" -> [n |-> 100, err |-> FALSE]
      [] OTHER     -> [n |-> 0, err |-> TRUE]

NoParams ==
    [lat |-> Num(0), lng |-> Num(0), name |-> "", days |-> 0,
     includeSunrise |-> FALSE, includeSunset |-> FALSE]

\* the validated parameters, or the error message when validation fails
parseCalendarParams(q) ==
    LET latStr  == Get(q, "lat")
        lngStr  == Get(q, "lng")
        latP    == ParseFloat(latStr)
        lngP    == ParseFloat(lngStr)
        daysStr == Get(q, "days")
        daysP   == Atoi(daysStr)
        exclude == Get(q, "exclude")
        fail(m) == [params |-> NoParams, errMsg |-> m]
    IN  IF latStr = "" \/ lngStr = ""
            THEN fail(<<"lat and lng parameters are required">>)
        ELSE IF latP.err \/ FloatLess(latP.f, -90) \/ FloatGreater(latP.f, 90)
            THEN fail(<<"invalid lat parameter">>)
        ELSE IF lngP.err \/ FloatLess(lngP.f, -180) \/ FloatGreater(lngP.f, 180)
            THEN fail(<<"invalid lng parameter">>)
        ELSE IF daysStr # "" /\ (daysP.err \/ daysP.n < 1 \/ daysP.n > maxDays)
            THEN fail(<<"days must be between 1 and ", maxDays>>)
        ELSE IF exclude \notin {"sunrise", "sunset", ""}
            THEN fail(<<"exclude must be 'sunrise' or 'sunset'">>)
        ELSE [params |-> [lat            |-> latP.f,
                          lng            |-> lngP.f,
                          name           |-> Get(q, "name"),
                          days           |-> IF daysStr # "" THEN daysP.n ELSE defaultDays,
                          includeSunrise |-> exclude # "sunrise",
                          includeSunset  |-> exclude # "sunset"],
              errMsg |-> <<>>]

calendarName_SuffixOfExcluded(name, includeSunrise, includeSunset) ==
    LET base == IF name # "" THEN <<"Sun Times - ", name>> ELSE <<"Sun Times">>
    IN  IF ~includeSunrise THEN base \o <<" (Sunrise only)">>
        ELSE IF ~includeSunset THEN base \o <<" (Sunset only)">>
        ELSE base

\* the calendar's name, as the pieces of text it is put together from
calendarName(name, includeSunrise, includeSunset) ==
    LET base == IF name # "" THEN <<"Sun Times - ", name>> ELSE <<"Sun Times">>
    IN  IF ~includeSunrise THEN base \o <<" (Sunset only)">>
        ELSE IF ~includeSunset THEN base \o <<" (Sunrise only)">>
        ELSE base

\* t.Truncate(24 * time.Hour): down to a whole number of days since the zero
\* time, which is a midnight UTC; the location is kept
Truncate24h(t) == [unix |-> t.unix - (t.unix % SecondsPerDay), off |-> t.off]

\* locationStr: the name, or the coordinates when the request has no name
locationStr(params) ==
    IF params.name # "" THEN <<params.name>>
    ELSE fmtF4(params.lat) \o <<", ">> \o fmtF4(params.lng)

\* the pointer to day i of sunTimes; day 0 is the nil pointer
dayPtr(sunTimes, i) == IF i = 0 THEN <<>> ELSE <<sunTimes[i]>>

\* one call of createSunEvent by the loop, with what it returned
addVEvent(event, sunTimes, i, prev, params, location, loc) ==
    [event   |-> event,
     day     |-> i,
     prevDay |-> prev,
     lat     |-> params.lat,
     lng     |-> params.lng,
     vevent  |-> createSunEvent(event, sunTimes[i], dayPtr(sunTimes, prev),
                                params.lat, params.lng, location, loc)]

dayEvents_SunsetFirst(sunTimes, params, location, loc, i, prev) ==
    (IF params.includeSunset /\ ~sunTimes[i].Sunset.nil
         THEN <<addVEvent(sunTimes[i].Sunset, sunTimes, i, prev, params, location, loc)>>
         ELSE <<>>)
    \o
    (IF params.includeSunrise /\ ~sunTimes[i].Sunrise.nil
         THEN <<addVEvent(sunTimes[i].Sunrise, sunTimes, i, prev, params, location, loc)>>
         ELSE <<>>)

\* the body of the loop for day i, prevDay pointing to day prev: one entry for
\* each included event that is present, the sunrise first
dayEvents(sunTimes, params, location, loc, i, prev) ==
    (IF params.includeSunrise /\ ~sunTimes[i].Sunrise.nil
         THEN <<addVEvent(sunTimes[i].Sunrise, sunTimes, i, prev, params, location, loc)>>
         ELSE <<>>)
    \o
    (IF params.includeSunset /\ ~sunTimes[i].Sunset.nil
         THEN <<addVEvent(sunTimes[i].Sunset, sunTimes, i, prev, params, location, loc)>>
         ELSE <<>>)

RECURSIVE addEvents_PrevWithEntry(_, _, _, _, _)
addEvents_PrevWithEntry(sunTimes, params, location, loc, i) ==
    IF i > Len(sunTimes) THEN <<>>
    ELSE LET had  == {j \in 1..(i - 1) :
                         dayEvents(sunTimes, params, location, loc, j, 0) # <<>>}
             prev == IF had = {} THEN 0 ELSE CHOOSE j \in had : \A k \in had : k <= j
         IN  dayEvents(sunTimes, params, location, loc, i, prev)
             \o addEvents_PrevWithEntry(sunTimes, params, location, loc, i + 1)

RECURSIVE addEvents(_, _, _, _, _)
\* the loop over sunTimes, from day i on; prevDay is nil in the first
\* iteration and the day of the iteration before in every other
addEvents(sunTimes, params, location, loc, i) ==
    IF i > Len(sunTimes) THEN <<>>
    ELSE dayEvents(sunTimes, params, location, loc, i, i - 1)
         \o addEvents(sunTimes, params, location, loc, i + 1)

\* the calls into the core of a request that passed validation
coreCalls(params, events) ==
    {[fn |-> "GetSunTimesRange", lat |-> params.lat, lng |-> params.lng, days |-> params.days],
     [fn |-> "GetTimezone", lat |-> params.lat, lng |-> params.lng, days |-> params.days]}
    \cup
    {[fn |-> "buildDescription", lat |-> e.lat, lng |-> e.lng, days |-> params.days] :
        e \in {events[j] : j \in 1..Len(events)}}

-----------------------------------------------------------------------------
(* What a request can carry *)

\* each key is absent (no value) or has one value, which may be empty
LatValues     == {"", "55.6761", "90.0001", "-90.0001", "NaN", "-Inf", "invalid"}
LngValues     == {"", "180", "-180.0001", "invalid"}
DaysValues    == {"", "abc", "0", "7", "91"}
ExcludeValues == {"sunrise", "sunset", "invalid"}
NameValues    == {"Copenhagen"}

OneOf(values) == {<<>>} \cup {<<v>> : v \in values}

Queries ==
    [lat : OneOf(LatValues), lng : OneOf(LngValues), days : OneOf(DaysValues),
     exclude : OneOf(ExcludeValues), name : OneOf(NameValues)]

\* the instants time.Now() reads: late on the eve of a solstice in the location
\* farthest east, where the day is the solstice already, and a noon near the end
\* of a year
Nows ==
    {Date(BaseYear, 6, 20, 23, 30, 0, MaxOffsetHours * 3600),
     Date(BaseYear, 12, 29, 12, 0, 0, 0)}

\* the answers of the library to the n calls of a request: day after day the
\* same ones recur with period SunPeriod
SunPeriod == 2

\* the answer for day d, the k-th after the start, at a place where the sun
\* sets about midnight of the location the instants are carried in, 90 seconds
\* earlier each day: one minute past the midnight that ends d when k is 0
DriftingAnswer(d, k) ==
    [times |-> [Sunrise |-> [unix |-> d.unix + 6 * 3600, off |-> d.off],
                Sunset  |-> [unix |-> d.unix - Clock(d) + SecondsPerDay + 60 - 90 * k,
                             off  |-> d.off]],
     pos   |-> [Sunrise |-> [Azimuth |-> 0, Altitude |-> 0],
                Sunset  |-> [Azimuth |-> 0, Altitude |-> 0]]]

RequestAnswers(start, n) ==
    {[i \in 1..n |-> PresenceAnswer(AddDate(start, i - 1),
                                    c[(i - 1) % SunPeriod][1], c[(i - 1) % SunPeriod][2])] :
        c \in [0..(SunPeriod - 1) -> BOOLEAN \X BOOLEAN]}
    \cup {[i \in 1..n |-> DriftingAnswer(AddDate(start, i - 1), i - 1)]}

-----------------------------------------------------------------------------
(* CalendarHandler on every request *)

InitHandler ==
    /\ pc = "call" /\ fn = ""
    /\ query \in Queries
    /\ resp = [status |-> 0, contentType |-> "", disposition |-> "", body |-> <<>>]
    /\ calls = {}
    /\ cal = [name |-> <<>>, events |-> <<>>]
    /\ IdleSol
    /\ IdleSun
    /\ IdleEv
    /\ IdleCon

\* the request fails validation: http.Error(w, errMsg, http.StatusBadRequest)
CalendarHandlerBadRequest ==
    /\ pc = "call"
    /\ LET p == parseCalendarParams(query)
       IN  /\ p.errMsg # <<>>
           /\ resp' = [status      |-> 400,
                       contentType |-> "text/plain; charset=utf-8",
                       disposition |-> "",
                       body        |-> p.errMsg]
    /\ fn' = "CalendarHandler"
    /\ pc' = "done"
    /\ UNCHANGED <<query, calls, cal, solVars, sunVars, evVars, conVars>>

\* the request passes validation: the calendar is built and written
CalendarHandlerOK ==
    /\ pc = "call"
    /\ LET p == parseCalendarParams(query)
       IN  /\ p.errMsg = <<>>
           /\ \E now \in Nows :
               LET start == Truncate24h(now)
               IN  \E ls \in RequestAnswers(start, p.params.days), l \in ZoneAnswers :
                       LET sunTimes == GetSunTimesRange(p.params.lat, p.params.lng, start,
                                                        p.params.days, ls)
                           loc      == GetTimezone(p.params.lat, p.params.lng, l)
                           events   == addEvents(sunTimes, p.params,
                                                 locationStr(p.params), loc, 1)
                       IN  /\ lat' = p.params.lat
                           /\ lng' = p.params.lng
                           /\ startDate' = start
                           /\ days' = p.params.days
                           /\ lib' = ls
                           /\ results' = sunTimes
                           /\ tz' = loc
                           /\ cal' = [name   |-> calendarName(p.params.name,
                                                              p.params.includeSunrise,
                                                              p.params.includeSunset),
                                      events |-> events]
                           /\ calls' = coreCalls(p.params, events)
                           /\ resp' = [status      |-> 200,
                                       contentType |-> "text/calendar; charset=utf-8",
                                       disposition |-> "attachment; filename=calsun.ics",
                                       body        |-> <<"BEGIN:VCALENDAR">>]
    /\ fn' = "CalendarHandler"
    /\ pc' = "done"
    /\ UNCHANGED <<query, solVars, evVars, conVars>>

NextHandler ==
    \/ CalendarHandlerBadRequest
    \/ CalendarHandlerOK

SpecHandler == InitHandler /\ [][NextHandler]_vars

-----------------------------------------------------------------------------
(* CalendarHandler serving several requests at once *)

\* net/http runs CalendarHandler in one goroutine for each request
Requests == {"r1", "r2"}

\* a request for two days, one for three days with a name and without the
\* sunrises, and one that fails validation
ConQueries ==
    {[lat |-> <<"55.6761">>, lng |-> <<"180">>, days |-> <<"2">>,
      exclude |-> <<>>, name |-> <<>>],
     [lat |-> <<"55.6761">>, lng |-> <<"180">>, days |-> <<"3">>,
      exclude |-> <<"sunrise">>, name |-> <<"Copenhagen">>],
     [lat |-> <<"invalid">>, lng |-> <<"180">>, days |-> <<>>,
      exclude |-> <<>>, name |-> <<>>]}

\* what the handlers running at the same time are all answered: the clock
\* reads now, suncalc answers with the presence pattern sun, and the zone
\* lookup answers zone
Worlds ==
    [now  : Nows,
     sun  : [0..(SunPeriod - 1) -> BOOLEAN \X BOOLEAN],
     zone : ZoneAnswers]

\* the answers of suncalc in world w to the n calls of a range from start
sunAnswers(w, start, n) ==
    [i \in 1..n |-> PresenceAnswer(AddDate(start, i - 1),
                                   w.sun[(i - 1) % SunPeriod][1],
                                   w.sun[(i - 1) % SunPeriod][2])]

NoResponse == [status |-> 0, contentType |-> "", disposition |-> "", body |-> <<>>]

\* the locals of a handler that has not started yet
NewRequest(q) ==
    [pc          |-> "parse",
     query       |-> q,
     params      |-> NoParams,
     sunTimes    |-> <<>>,
     locationStr |-> <<>>,
     tz          |-> NoLocation,
     i           |-> 0,
     prevDay     |-> 0,
     cal         |-> [name |-> <<>>, events |-> <<>>],
     resp        |-> NoResponse]

prevDayOf_LeastInLoop(rs, r) ==
    LET looping == {o \in Requests : rs[o].pc = "loop"}
    IN  rs[CHOOSE o \in looping : \A x \in looping : rs[o].prevDay <= rs[x].prevDay].prevDay

\* prevDay is a local variable of the handler serving r
prevDayOf(rs, r) == rs[r].prevDay

InitConcurrent ==
    /\ pc = "serve" /\ fn = "CalendarHandler"
    /\ world \in Worlds
    /\ inflight \in {[r \in Requests |-> NewRequest(q[r])] : q \in [Requests -> ConQueries]}
    /\ IdleSol
    /\ IdleSun
    /\ IdleReq
    /\ IdleEv

\* parseCalendarParams, and the 400 response when it fails
ParseRequest(r) ==
    /\ inflight[r].pc = "parse"
    /\ LET p == parseCalendarParams(inflight[r].query)
       IN  inflight' =
               IF p.errMsg # <<>>
               THEN [inflight EXCEPT ![r].pc   = "done",
                                     ![r].resp = [status      |-> 400,
                                                  contentType |-> "text/plain; charset=utf-8",
                                                  disposition |-> "",
                                                  body        |-> p.errMsg]]
               ELSE [inflight EXCEPT ![r].pc = "range", ![r].params = p.params]
    /\ UNCHANGED <<pc, fn, world, solVars, sunVars, reqVars, evVars>>

\* from the new calendar to the start of the loop
RangeRequest(r) ==
    /\ inflight[r].pc = "range"
    /\ LET params == inflight[r].params
           start  == Truncate24h(world.now)
       IN  inflight' =
               [inflight EXCEPT
                   ![r].pc          = "loop",
                   ![r].cal         = [name   |-> calendarName(params.name,
                                                               params.includeSunrise,
                                                               params.includeSunset),
                                       events |-> <<>>],
                   ![r].sunTimes    = GetSunTimesRange(params.lat, params.lng, start,
                                                       params.days,
                                                       sunAnswers(world, start, params.days)),
                   ![r].locationStr = locationStr(params),
                   ![r].tz          = GetTimezone(params.lat, params.lng, world.zone),
                   ![r].i           = 1,
                   ![r].prevDay     = 0]
    /\ UNCHANGED <<pc, fn, world, solVars, sunVars, reqVars, evVars>>

\* one iteration of the loop over sunTimes
LoopRequest(r) ==
    /\ inflight[r].pc = "loop"
    /\ inflight[r].i <= Len(inflight[r].sunTimes)
    /\ LET me == inflight[r]
       IN  inflight' =
               [inflight EXCEPT
                   ![r].cal.events = @ \o dayEvents(me.sunTimes, me.params, me.locationStr,
                                                    me.tz, me.i, prevDayOf(inflight, r)),
                   ![r].prevDay    = me.i,
                   ![r].i          = me.i + 1]
    /\ UNCHANGED <<pc, fn, world, solVars, sunVars, reqVars, evVars>>

\* the headers and the serialized calendar, after the loop
WriteRequest(r) ==
    /\ inflight[r].pc = "loop"
    /\ inflight[r].i > Len(inflight[r].sunTimes)
    /\ inflight' =
           [inflight EXCEPT
               ![r].pc   = "done",
               ![r].resp = [status      |-> 200,
                            contentType |-> "text/calendar; charset=utf-8",
                            disposition |-> "attachment; filename=calsun.ics",
                            body        |-> <<"BEGIN:VCALENDAR">>]]
    /\ UNCHANGED <<pc, fn, world, solVars, sunVars, reqVars, evVars>>

NextConcurrent ==
    \E r \in Requests :
        \/ ParseRequest(r)
        \/ RangeRequest(r)
        \/ LoopRequest(r)
        \/ WriteRequest(r)

SpecConcurrent == InitConcurrent /\ [][NextConcurrent]_vars

-----------------------------------------------------------------------------
(* createSunEvent on every input *)

Kinds == {"sunrise", "sunset"}

otherKind(kind) == IF kind = "sunrise" THEN "sunset" ELSE "sunrise"

\* the days described: a summer solstice, the last day of a year, and the two
\* Sundays on which Europe/Copenhagen changes its offset
DescribeDays ==
    {daysSinceEpoch(BaseYear, 6, 21), daysSinceEpoch(BaseYear, 12, 31),
     lastSunday(BaseYear, 3), lastSunday(BaseYear, 10)}

\* seconds by which an event comes after 04:00:00 UTC (a sunrise) or after
\* 22:30:00 UTC (a sunset), on the day described and on the day before; with
\* the first one a sunrise is at 00:30:00, before the hour at which
\* Europe/Copenhagen changes its offset
Shifts     == {-12600, 0, 45, 89, 180}
PrevShifts == {0, 180}

\* the event of the given kind on day number n, shifted by s seconds, carried
\* in the location at offset o
SunEventAt(kind, n, o, s) ==
    [nil       |-> FALSE,
     Type      |-> kind,
     Time      |-> [unix |-> n * SecondsPerDay
                             + (IF kind = "sunrise" THEN 4 * 3600 ELSE 22 * 3600 + 1800)
                             + s,
                    off  |-> o],
     Azimuth   |-> IF kind = "sunrise" THEN Deg(90) ELSE Deg(270),
     Elevation |-> 0]

\* the DaySunTimes of day number n with e as its event of the given kind
DayWith(kind, n, o, e, other) ==
    [Date    |-> [unix |-> n * SecondsPerDay, off |-> o],
     Sunrise |-> IF kind = "sunrise" THEN e ELSE other,
     Sunset  |-> IF kind = "sunset" THEN e ELSE other]

\* prevDay: nil, or the day before with its event of the given kind absent or
\* present
PrevDays(kind, n, o) ==
    {<<>>}
    \cup {<<DayWith(kind, n - 1, o, e, SunEventAt(otherKind(kind), n - 1, o, 0))>> :
             e \in {NilEvent} \cup {SunEventAt(kind, n - 1, o, p) : p \in PrevShifts}}

\* coordinates that differ in the fifth decimal, one just west of the prime
\* meridian, and the latitude NaN that parseCalendarParams lets through
DescribeCoords ==
    {<<Num(5567611), Num(1256830)>>, <<Num(5567614), Num(1256830)>>,
     <<Num(5567616), Num(-4)>>, <<NaN, Num(1256830)>>}

Locations == {UTC} \cup {[name |-> z] : z \in ZoneNames}

DescribeArgs ==
    UNION {
        LET e   == SunEventAt(kind, n, o, s)
            day == DayWith(kind, n, o, e,
                           IF both THEN SunEventAt(otherKind(kind), n, o, 0) ELSE NilEvent)
        IN  {[event |-> e, day |-> day, prevDay |-> pd, lat |-> c[1], lng |-> c[2],
              location |-> <<"Copenhagen">>, loc |-> l] :
                pd \in PrevDays(kind, n, o), c \in DescribeCoords, l \in Locations}
        : kind \in Kinds, n \in DescribeDays, o \in Offsets, s \in Shifts,
          both \in BOOLEAN}

InitDescribe ==
    /\ pc = "call" /\ fn = ""
    /\ args \in DescribeArgs
    /\ entry = <<>>
    /\ IdleSol
    /\ IdleSun
    /\ IdleReq
    /\ IdleCon

CallCreateSunEvent ==
    /\ pc = "call"
    /\ entry' = createSunEvent(args.event, args.day, args.prevDay, args.lat, args.lng,
                              args.location, args.loc)
    /\ fn' = "createSunEvent"
    /\ pc' = "done"
    /\ UNCHANGED <<args, solVars, sunVars, reqVars, conVars>>

NextDescribe == CallCreateSunEvent

SpecDescribe == InitDescribe /\ [][NextDescribe]_vars

-----------------------------------------------------------------------------
(* The calendar, one civil day at a time *)

\* the civil date after <<y, m, d>>
nextDay(c) ==
    IF c[3] < daysIn(c[2], c[1]) THEN <<c[1], c[2], c[3] + 1>>
    ELSE IF c[2] < 12 THEN <<c[1], c[2] + 1, 1>>
    ELSE <<c[1] + 1, 1, 1>>

\* the first day of the month after that of <<y, m, d>>
nextMonth(c) == IF c[2] < 12 THEN <<c[1], c[2] + 1, 1>> ELSE <<c[1] + 1, 1, 1>>

RECURSIVE stepsTo(_, _, _)
\* civil days from c to the next date, c included, that is day d of month m:
\* within the month when the day is still ahead, else through the rest of the
\* month and on from the first of the next
stepsTo(c, m, d) ==
    IF c[2] = m /\ c[3] <= d THEN d - c[3]
    ELSE (daysIn(c[2], c[1]) - c[3] + 1) + stepsTo(nextMonth(c), m, d)

\* the calendar date t shows in the location it carries
civilOf(t) == <<Year(t), Month(t), Day(t)>>

Less(a, b) == IF a <= b THEN a ELSE b

-----------------------------------------------------------------------------
(* Claims on DaysUntilNextSolstice *)

SolsticeExamples ==
    {<<Date(2024, 1, 1, 0, 0, 0, 0),   172, "summer">>,
     <<Date(2024, 3, 21, 0, 0, 0, 0),  92,  "summer">>,
     <<Date(2024, 7, 1, 0, 0, 0, 0),   173, "winter">>,
     <<Date(2024, 10, 1, 0, 0, 0, 0),  81,  "winter">>,
     <<Date(2024, 12, 22, 0, 0, 0, 0), 181, "summer">>}

\* C1: the day count is non-negative and is the smaller of the civil days to the
\* next June 21 and to the next December 21, counted from the calendar date the
\* argument shows; the season is that of the nearer one, summer on a tie; the
\* five dated examples give the stated results.
C1_NearestSolstice ==
    (pc = "done" /\ fn = "DaysUntilNextSolstice") =>
        LET toSummer == stepsTo(civilOf(date), 6, 21)
            toWinter == stepsTo(civilOf(date), 12, 21)
        IN  /\ solstice.days >= 0
            /\ solstice.days = Less(toSummer, toWinter)
            /\ solstice.season = (IF toSummer <= toWinter THEN "summer" ELSE "winter")
            /\ \A e \in SolsticeExamples :
                  date = e[1] => solstice = [days |-> e[2], season |-> e[3]]

\* a date after December 21: both candidates are next year's
C1_Witness ==
    /\ pc = "done" /\ fn = "DaysUntilNextSolstice"
    /\ date = Date(2024, 12, 22, 0, 0, 0, 0)
    /\ solstice = [days |-> 181, season |-> "summer"]

\* C2: June 21 gives (0, summer), December 21 gives (0, winter), and the day
\* count is 0 on no other calendar date.
C2_ZeroOnSolsticeDayOnly ==
    (pc = "done" /\ fn = "DaysUntilNextSolstice") =>
        /\ (Month(date) = 6 /\ Day(date) = 21) =>
               solstice = [days |-> 0, season |-> "summer"]
        /\ (Month(date) = 12 /\ Day(date) = 21) =>
               solstice = [days |-> 0, season |-> "winter"]
        /\ solstice.days = 0 => (Month(date) \in {6, 12} /\ Day(date) = 21)

C2_Witness ==
    /\ pc = "done" /\ fn = "DaysUntilNextSolstice"
    /\ Year(date) = BaseYear + 1 /\ Month(date) = 12 /\ Day(date) = 21
    /\ solstice = [days |-> 0, season |-> "winter"]

\* the UTC calendar day of t, as a day number
utcDay(t) == t.unix \div SecondsPerDay

\* C3: two instants on the same UTC calendar date, whatever their time of day
\* and whatever location they carry, get the same result.
C3_SameUTCDateSameResult ==
    (pc = "done" /\ fn = "DaysUntilNextSolstice") =>
        \A k \in Clocks, o \in Offsets :
            DaysUntilNextSolstice([unix |-> utcDay(date) * SecondsPerDay + k, off |-> o])
                = solstice

-----------------------------------------------------------------------------
(* Claims on GetSunTimes, GetSunTimesRange and GetTimezone *)

SunCalled == pc = "done" /\ fn \in {"GetSunTimes", "GetSunTimesRange"}

\* the events of the returned days that are present, each with the position
\* the library answered for its instant
PresentEvents ==
    {<<results[i].Sunrise, lib[i].pos.Sunrise>> :
        i \in {j \in 1..Len(results) : ~results[j].Sunrise.nil}}
    \cup
    {<<results[i].Sunset, lib[i].pos.Sunset>> :
        i \in {j \in 1..Len(results) : ~results[j].Sunset.nil}}

\* C4: the range has exactly days entries; the first carries the start date,
\* each next one the civil date after its predecessor's, at the same wall clock
\* in the same location, across month and year ends too.
C4_RangeDatesConsecutive ==
    (pc = "done" /\ fn = "GetSunTimesRange") =>
        /\ Len(results) = days
        /\ results[1].Date = startDate
        /\ \A i \in 1..(Len(results) - 1) :
            /\ civilOf(results[i + 1].Date) = nextDay(civilOf(results[i].Date))
            /\ Clock(results[i + 1].Date) = Clock(results[i].Date)
            /\ results[i + 1].Date.off = results[i].Date.off
            /\ results[i + 1].Date.unix > results[i].Date.unix

\* a range that runs from a leap day in February into March
C4_Witness ==
    /\ pc = "done" /\ fn = "GetSunTimesRange"
    /\ days = MaxRangeDays
    /\ civilOf(results[1].Date) = <<2024, 2, 29>>
    /\ civilOf(results[2].Date) = <<2024, 3, 1>>

\* C6 as stated: every azimuth is at least 0 and below 360 degrees.
C6_AzimuthBelow360 ==
    SunCalled => \A e \in PresentEvents : 0 <= e[1].Azimuth /\ e[1].Azimuth < Deg(360)

\* C6 amended: every azimuth lies in the closed range from 0 to 360 degrees; it
\* is 0 exactly when the position formula answers -pi and 360 exactly when it
\* answers pi.
C6_AzimuthClosedRange ==
    SunCalled =>
        \A e \in PresentEvents :
            /\ 0 <= e[1].Azimuth /\ e[1].Azimuth <= Deg(360)
            /\ e[1].Azimuth = 0 <=> e[2].Azimuth = -PiSteps
            /\ e[1].Azimuth = Deg(360) <=> e[2].Azimuth = PiSteps

\* a sunrise at 0 degrees and a sunset at 360 degrees in one day
C6_Witness ==
    /\ pc = "done" /\ fn = "GetSunTimes"
    /\ ~results[1].Sunrise.nil /\ results[1].Sunrise.Azimuth = 0
    /\ ~results[1].Sunset.nil /\ results[1].Sunset.Azimuth = Deg(360)

\* C7: a DaySunTimes is returned on every answer of the library; an event whose
\* instant the library gave as the zero time is nil, so both are nil when both
\* instants are zero; an event that is present carries the library's instant,
\* which is not the zero time, and the type of its field.
C7_AbsentWhenZero ==
    SunCalled =>
        /\ Len(results) = Len(lib)
        /\ \A i \in 1..Len(results) :
            /\ IsZero(lib[i].times.Sunrise) => results[i].Sunrise.nil
            /\ IsZero(lib[i].times.Sunset) => results[i].Sunset.nil
            /\ (IsZero(lib[i].times.Sunrise) /\ IsZero(lib[i].times.Sunset)) =>
                   (results[i].Sunrise.nil /\ results[i].Sunset.nil)
            /\ ~results[i].Sunrise.nil =>
                   /\ results[i].Sunrise.Type = "sunrise"
                   /\ results[i].Sunrise.Time = lib[i].times.Sunrise
                   /\ ~IsZero(results[i].Sunrise.Time)
            /\ ~results[i].Sunset.nil =>
                   /\ results[i].Sunset.Type = "sunset"
                   /\ results[i].Sunset.Time = lib[i].times.Sunset
                   /\ ~IsZero(results[i].Sunset.Time)

\* a polar day or night: the library gave the zero time twice
C7_Witness ==
    /\ pc = "done" /\ fn = "GetSunTimes"
    /\ IsZero(lib[1].times.Sunrise) /\ IsZero(lib[1].times.Sunset)
    /\ results[1].Sunrise.nil /\ results[1].Sunset.nil

\* C8: GetTimezone returns a location on every answer of the libraries: UTC
\* when no zone name is found, UTC when the zone found cannot be loaded, and
\* the loaded zone otherwise.
C8_TimezoneFallsBackToUTC ==
    (pc = "done" /\ fn = "GetTimezone") =>
        /\ tz # NoLocation
        /\ lib.zoneName = "" => tz = UTC
        /\ (lib.zoneName # "" /\ lib.err) => tz = UTC
        /\ (lib.zoneName # "" /\ ~lib.err) => tz.name = lib.zoneName

\* a zone name was found and loading it failed
C8_Witness ==
    /\ pc = "done" /\ fn = "GetTimezone"
    /\ lib.zoneName # "" /\ lib.err
    /\ tz = UTC

-----------------------------------------------------------------------------
(* Claims on CalendarHandler *)

Handled == pc = "done" /\ fn = "CalendarHandler"

\* f is a number from lo to hi degrees
InDegrees(f, lo, hi) == f.kind = "num" /\ lo * 100000 <= f.v /\ f.v <= hi * 100000

\* the text of a whole number from 1 to 90
IsDayCount(s) == ~Atoi(s).err /\ Atoi(s).n >= 1 /\ Atoi(s).n <= 90

\* the requests C9 lists: lat or lng missing, or not a number, or outside its
\* range; days supplied and no whole number from 1 to 90; exclude supplied and
\* neither "sunrise" nor "sunset"
MustBeRejected(q) ==
    \/ q.lat = <<>> \/ q.lng = <<>>
    \/ ParseFloat(q.lat[1]).err \/ ParseFloat(q.lng[1]).err
    \/ ~InDegrees(ParseFloat(q.lat[1]).f, -90, 90)
    \/ ~InDegrees(ParseFloat(q.lng[1]).f, -180, 180)
    \/ (q.days # <<>> /\ ~IsDayCount(q.days[1]))
    \/ (q.exclude # <<>> /\ q.exclude[1] \notin {"sunrise", "sunset"})

\* C9: each of the listed requests is answered 400 with no call into the core
\* and no calendar header or body written; a request without a days parameter
\* is served with 30 days.
C9_BadRequestsRejected ==
    Handled =>
        /\ MustBeRejected(query) =>
               /\ resp.status = 400
               /\ calls = {}
               /\ resp.contentType # "text/calendar; charset=utf-8"
               /\ resp.disposition = ""
               /\ resp.body # <<"BEGIN:VCALENDAR">>
        /\ (query.days = <<>> /\ resp.status = 200) => days = 30

\* C10: every call into the core carries a latitude from -90 to 90, a longitude
\* from -180 to 180 and a day count from 1 to 90.
C10_CoreArgumentsInRange ==
    Handled =>
        \A c \in calls :
            /\ InDegrees(c.lat, -90, 90)
            /\ InDegrees(c.lng, -180, 180)
            /\ c.days \in 1..90

\* the request was accepted and its calendar written
Served == Handled /\ resp.status = 200

\* the kinds of event the request did not exclude
IncludedKinds == {"sunrise", "sunset"} \ {Get(query, "exclude")}

\* the event of the given kind of day i of the range
EventOf(i, kind) == IF kind = "sunrise" THEN results[i].Sunrise ELSE results[i].Sunset

\* the (day, kind) pairs whose event is present and whose kind is not excluded
DueEntries ==
    {p \in (1..Len(results)) \X IncludedKinds : ~EventOf(p[1], p[2]).nil}

\* C11: the calendar of an accepted request has exactly one entry for each
\* (day, kind) pair whose event is present and whose kind is not excluded, and
\* no other entry; with exclude=sunrise it has no sunrise entry and one for every
\* sunset that is present, and the reverse with exclude=sunset; it has at most
\* 2 * days entries; the entries are in day order, the sunrise of a day before
\* its sunset.
C11_OneEntryPerDueEvent ==
    Served =>
        LET E      == cal.events
            key(j) == <<E[j].day, E[j].event.Type>>
        IN  /\ {key(j) : j \in 1..Len(E)} = DueEntries
            /\ Len(E) = Cardinality(DueEntries)
            /\ \A j \in 1..Len(E) :
                /\ E[j].event = EventOf(E[j].day, E[j].event.Type)
                /\ E[j].vevent.start = E[j].event.Time
            /\ Get(query, "exclude") = "sunrise" =>
                /\ \A j \in 1..Len(E) : E[j].event.Type # "sunrise"
                /\ \A i \in 1..Len(results) :
                       ~results[i].Sunset.nil => \E j \in 1..Len(E) : key(j) = <<i, "sunset">>
            /\ Get(query, "exclude") = "sunset" =>
                /\ \A j \in 1..Len(E) : E[j].event.Type # "sunset"
                /\ \A i \in 1..Len(results) :
                       ~results[i].Sunrise.nil => \E j \in 1..Len(E) : key(j) = <<i, "sunrise">>
            /\ Len(E) <= 2 * days
            /\ \A j \in 1..(Len(E) - 1) :
                \/ E[j].day < E[j + 1].day
                \/ /\ E[j].day = E[j + 1].day
                   /\ E[j].event.Type = "sunrise"
                   /\ E[j + 1].event.Type = "sunset"

\* thirty days, both kinds included, both events present on the odd days and
\* only the sunset on the even days
C11_Witness ==
    /\ Served
    /\ days = defaultDays
    /\ IncludedKinds = {"sunrise", "sunset"}
    /\ ~results[1].Sunrise.nil /\ ~results[1].Sunset.nil
    /\ results[2].Sunrise.nil /\ ~results[2].Sunset.nil
    /\ Len(cal.events) = 45

-----------------------------------------------------------------------------
(* Claims on createSunEvent, buildDescription and generateUID *)

Described == pc = "done" /\ fn = "createSunEvent"

\* the wall clock, in seconds after midnight, that location loc shows at the
\* instant of t
LocalClock(t, loc) == (t.unix + zoneOffset(loc, t.unix)) % SecondsPerDay

\* C12: the entry starts at the instant of the event and ends exactly one
\* minute after it; its title is the kind with a capital ("Sunrise", "Sunset"),
\* a space, and the hour and minute, two digits each, that the supplied time
\* zone shows at that instant.
C12_StartEndAndTitle ==
    Described =>
        LET clock == LocalClock(args.event.Time, args.loc)
        IN  /\ entry.start = args.event.Time
            /\ entry.end.unix - entry.start.unix = 60
            /\ entry.summary =
                   <<IF args.event.Type = "sunrise" THEN "Sunrise" ELSE "Sunset", " ">>
                   \o twoDigits(clock \div 3600) \o <<":">>
                   \o twoDigits((clock % 3600) \div 60)

\* a sunset at 22:30 UTC of June 21, which Copenhagen shows as 00:30
C12_Witness ==
    /\ Described
    /\ args.loc.name = "Europe/Copenhagen"
    /\ args.event.Time.unix = daysSinceEpoch(BaseYear, 6, 21) * SecondsPerDay + 81000
    /\ entry.summary = <<"Sunset", " ", "0", "0", ":", "3", "0">>
    /\ entry.end.unix = args.event.Time.unix + 60

\* the calls of generateUID compared with the one made at instant t: instants
\* early and late on the UTC day of t, the day before and the day after, carried
\* at every offset, with each latitude, each longitude and each kind
UIDCalls(t) ==
    [t    : {[unix |-> n * SecondsPerDay + c, off |-> o] :
                n \in (utcDay(t) - 1)..(utcDay(t) + 1),
                c \in {30 * 60, 23 * 3600 + 1800}, o \in Offsets},
     lat  : {c[1] : c \in DescribeCoords},
     lng  : {c[2] : c \in DescribeCoords},
     kind : Kinds]

\* f rounded to four decimals, as "%.4f" prints it: the sign, which is printed
\* for -0.0000 too, and the count of ten-thousandths
Rounded4(f) ==
    IF f.kind = "num" THEN <<f.v < 0, (abs(f.v) + 5) \div 10>> ELSE <<f.kind>>

\* C13: the identifier depends only on the calendar date the event instant
\* shows, on the latitude and the longitude rounded to four decimals, and on the
\* kind: any other call with the same four gets the same identifier, whatever
\* its instant within the date and whatever the further decimals.
C13_UIDFromDateCoordsKind ==
    Described =>
        \A u \in UIDCalls(args.event.Time) :
            ( /\ civilOf(u.t) = civilOf(args.event.Time)
              /\ Rounded4(u.lat) = Rounded4(args.lat)
              /\ Rounded4(u.lng) = Rounded4(args.lng)
              /\ u.kind = args.event.Type )
            => generateUID(u.t, u.lat, u.lng, u.kind) = entry.uid

\* a sunrise at 04:00:45 at latitude 55.67611: the call at 00:30 of the same
\* date at latitude 55.67614 gets the same identifier
C13_Witness ==
    /\ Described
    /\ args.event.Type = "sunrise"
    /\ Clock(args.event.Time) = 4 * 3600 + 45
    /\ args.lat = Num(5567611)
    /\ \E u \in UIDCalls(args.event.Time) :
        /\ civilOf(u.t) = civilOf(args.event.Time)
        /\ Clock(u.t) = 30 * 60
        /\ u.lat = Num(5567614) /\ u.lng = args.lng /\ u.kind = "sunrise"
        /\ generateUID(u.t, u.lat, u.lng, u.kind) = entry.uid

desc == entry.description

IsDayLength(line) == line # <<>> /\ line[1] = "Day length: "

IsYesterday(line) == line # <<>> /\ line[1] \in {"Yesterday: ", "Yesterday: same time"}

LinesThat(P(_)) == {j \in 1..Len(desc) : P(desc[j])}

\* the day before is given and has an event of the kind described
PrevHasSameKind ==
    /\ args.prevDay # <<>>
    /\ \/ args.event.Type = "sunrise" /\ ~args.prevDay[1].Sunrise.nil
       \/ args.event.Type = "sunset" /\ ~args.prevDay[1].Sunset.nil

DayHasBoth == ~args.day.Sunrise.nil /\ ~args.day.Sunset.nil

Count(b) == IF b THEN 1 ELSE 0

\* C14: the description has a "Yesterday" line exactly when the day before is
\* given and has an event of the same kind, and a "Day length" line exactly
\* when the day has both a sunrise and a sunset; a line that is omitted leaves
\* nothing behind: the description has its six other lines and these, the only
\* empty line being the fifth.
C14_OptionalLines ==
    Described =>
        /\ Cardinality(LinesThat(IsYesterday)) = Count(PrevHasSameKind)
        /\ Cardinality(LinesThat(IsDayLength)) = Count(DayHasBoth)
        /\ Len(desc) = 6 + Count(PrevHasSameKind) + Count(DayHasBoth)
        /\ {j \in 1..Len(desc) : desc[j] = <<>>} = {5}

\* a sunrise on a day without sunset, after a day that had a sunset and no
\* sunrise: neither line
C14_Witness ==
    /\ Described
    /\ args.event.Type = "sunrise"
    /\ args.day.Sunset.nil
    /\ args.prevDay # <<>> /\ args.prevDay[1].Sunrise.nil /\ ~args.prevDay[1].Sunset.nil
    /\ Len(desc) = 6

\* the event of the day before that the event described is compared with
PrevEvent ==
    IF args.event.Type = "sunrise" THEN args.prevDay[1].Sunrise ELSE args.prevDay[1].Sunset

\* seconds by which the wall clock of the event, in the supplied zone, is ahead
\* of the wall clock of the same-kind event of the day before
WallClockDelta ==
    LocalClock(args.event.Time, args.loc) - LocalClock(PrevEvent.Time, args.loc)

TheYesterdayLine == desc[CHOOSE j \in LinesThat(IsYesterday) : TRUE]

\* C15: the delta is that of the two wall clocks in the supplied zone, whatever
\* time has passed between the two instants: N whole minutes (N >= 1) earlier
\* reads "Yesterday: Nm earlier", N whole minutes later "Yesterday: Nm later",
\* the same wall clock "Yesterday: same time".
C15_WallClockDelta ==
    (Described /\ PrevHasSameKind) =>
        LET d == WallClockDelta
            n == abs(d) \div 60
        IN  /\ (d < 0 /\ d % 60 = 0) =>
                   TheYesterdayLine = <<"Yesterday: ">> \o fmtD(n) \o <<"m ", "earlier">>
            /\ (d > 0 /\ d % 60 = 0) =>
                   TheYesterdayLine = <<"Yesterday: ">> \o fmtD(n) \o <<"m ", "later">>
            /\ d = 0 => TheYesterdayLine = <<"Yesterday: same time">>

\* the Sunday Copenhagen goes back to winter time: a sunrise 24 hours less
\* 3 minutes after the sunrise of the day before is 63 minutes earlier on the
\* wall clock
C15_Witness ==
    /\ Described /\ PrevHasSameKind
    /\ args.loc.name = "Europe/Copenhagen"
    /\ Sub(args.event.Time, PrevEvent.Time) = SecondsPerDay - 180
    /\ WallClockDelta = -(63 * 60)
    /\ TheYesterdayLine = <<"Yesterday: ", "6", "3", "m ", "earlier">>

\* the minutes of a difference of d seconds, rounded to the nearest minute
NearestMinutes(d) == (2 * abs(d) + 60) \div 120

\* C16 as stated: the line reads "same time" exactly when the difference of
\* the wall clocks rounds to zero minutes, and shows the difference rounded to
\* whole minutes otherwise.
C16_RoundedMinutes ==
    (Described /\ PrevHasSameKind) =>
        LET d == WallClockDelta
        IN  /\ TheYesterdayLine = <<"Yesterday: same time">> <=> NearestMinutes(d) = 0
            /\ NearestMinutes(d) # 0 =>
                   TheYesterdayLine = <<"Yesterday: ">> \o fmtD(NearestMinutes(d))
                       \o <<"m ", IF d < 0 THEN "earlier" ELSE "later">>

\* C16 amended: the line reads "same time" exactly when the wall clocks differ
\* by less than 60 seconds, and shows the whole minutes contained in the
\* difference otherwise (the seconds beyond them are dropped): 45 seconds read
\* "same time", 89 seconds "1m later", 91 seconds earlier "1m earlier".
C16_WholeMinutesDropSeconds ==
    (Described /\ PrevHasSameKind) =>
        LET d == WallClockDelta
            n == abs(d) \div 60
        IN  /\ TheYesterdayLine = <<"Yesterday: same time">> <=> abs(d) < 60
            /\ abs(d) >= 60 =>
                   TheYesterdayLine = <<"Yesterday: ">> \o fmtD(n)
                       \o <<"m ", IF d < 0 THEN "earlier" ELSE "later">>
            /\ d = 45 => TheYesterdayLine = <<"Yesterday: same time">>
            /\ d = 89 => TheYesterdayLine = <<"Yesterday: ", "1", "m ", "later">>
            /\ d = -91 => TheYesterdayLine = <<"Yesterday: ", "1", "m ", "earlier">>

\* an event 45 seconds later than the day before reads "same time"
C16_Witness ==
    /\ Described /\ PrevHasSameKind
    /\ WallClockDelta = 45
    /\ TheYesterdayLine = <<"Yesterday: same time">>

\* the solstice line for the event: what DaysUntilNextSolstice answers for
\* its instant, in words
SolsticeLine ==
    LET s == DaysUntilNextSolstice(args.event.Time)
    IN  IF s.days = 0 THEN <<"Today is the ", s.season, " solstice!">>
        ELSE <<"Next solstice: ">> \o fmtD(s.days) \o <<" days (", s.season, ")">>

IsSolstice(line) == line # <<>> /\ line[1] \in {"Today is the ", "Next solstice: "}

\* C19: the lines come in the order Time, Location, Coordinates, Azimuth, an
\* empty line, the Day length line if any, the Yesterday line if any, and last
\* the solstice line, of which there is exactly one: "Today is the <season>
\* solstice!" when DaysUntilNextSolstice of the event instant is 0 days, and
\* "Next solstice: N days (<season>)" otherwise.
C19_LineOrder ==
    Described =>
        LET clock == LocalClock(args.event.Time, args.loc)
        IN  /\ desc[1] = <<"Time: ">> \o twoDigits(clock \div 3600) \o <<":">>
                             \o twoDigits((clock % 3600) \div 60) \o <<":">>
                             \o twoDigits(clock % 60)
            /\ desc[2] = <<"Location: ">> \o args.location
            /\ desc[3][1] = "Coordinates: "
            /\ desc[4][1] = "Azimuth: "
            /\ desc[5] = <<>>
            /\ DayHasBoth => IsDayLength(desc[6])
            /\ PrevHasSameKind => IsYesterday(desc[6 + Count(DayHasBoth)])
            /\ Len(desc) = 6 + Count(DayHasBoth) + Count(PrevHasSameKind)
            /\ desc[Len(desc)] = SolsticeLine
            /\ LinesThat(IsSolstice) = {Len(desc)}

\* a sunrise on June 21 with all eight lines, the last one "Today is the
\* summer solstice!"
C19_Witness ==
    /\ Described
    /\ DayHasBoth /\ PrevHasSameKind
    /\ Len(desc) = 8
    /\ IsDayLength(desc[6]) /\ IsYesterday(desc[7])
    /\ desc[8] = <<"Today is the ", "summer", " solstice!">>

-----------------------------------------------------------------------------
(* Claims on the calendar CalendarHandler builds *)

\* C18: the calendar is named "Sun Times" when the request gives no name and
\* "Sun Times - <name>" when it gives one, followed by " (Sunset only)" when
\* sunrise is excluded, by " (Sunrise only)" when sunset is excluded, and by
\* nothing when neither is.
C18_CalendarName ==
    Served =>
        LET name    == Get(query, "name")
            exclude == Get(query, "exclude")
        IN  cal.name =
                (IF name = "" THEN <<"Sun Times">> ELSE <<"Sun Times - ", name>>)
                \o (CASE exclude = "sunrise" -> <<" (Sunset only)">>
                      [] exclude = "sunset"  -> <<" (Sunrise only)">>
                      [] OTHER               -> <<>>)

\* a request with a name and exclude=sunrise
C18_Witness ==
    /\ Served
    /\ query.name = <<"Copenhagen">>
    /\ query.exclude = <<"sunrise">>
    /\ cal.name = <<"Sun Times - ", "Copenhagen", " (Sunset only)">>

\* the description of entry e has a Yesterday line
HasYesterday(e) ==
    \E j \in 1..Len(e.vevent.description) : IsYesterday(e.vevent.description[j])

\* C20: the entries of the first day of the range are described with no day
\* before and have no Yesterday line; the entries of every later day i are
\* described against day i - 1 of the range, whether or not that day had any
\* event and whether or not its events were excluded, so they have a Yesterday
\* line exactly when day i - 1 has the event of their kind, and none when it
\* lacks it, whatever older days have.
C20_PreviousDayIsTheDayBefore ==
    Served =>
        \A j \in 1..Len(cal.events) :
            LET e == cal.events[j]
            IN  /\ e.prevDay = e.day - 1
                /\ e.day = 1 => ~HasYesterday(e)
                /\ e.day > 1 =>
                       (HasYesterday(e) <=> ~EventOf(e.day - 1, e.event.Type).nil)

\* sunrise excluded; the second day has a sunrise only, so it has no entry, and
\* the sunset of the third day has no Yesterday line though the first day had
\* a sunset
C20_Witness ==
    /\ Served
    /\ IncludedKinds = {"sunset"}
    /\ ~results[1].Sunset.nil
    /\ ~results[2].Sunrise.nil /\ results[2].Sunset.nil
    /\ \E j \in 1..Len(cal.events) :
        /\ cal.events[j].day = 3
        /\ cal.events[j].event.Type = "sunset"
        /\ ~HasYesterday(cal.events[j])

-----------------------------------------------------------------------------
(* Claims on requests served at the same time *)

\* what CalendarHandler answers to query q when it runs alone in world w: the
\* response, and the calendar that is its body
ServedAlone(q, w) ==
    LET p == parseCalendarParams(q)
    IN  IF p.errMsg # <<>>
        THEN [resp |-> [status      |-> 400,
                        contentType |-> "text/plain; charset=utf-8",
                        disposition |-> "",
                        body        |-> p.errMsg],
              cal  |-> [name |-> <<>>, events |-> <<>>]]
        ELSE LET start    == Truncate24h(w.now)
                 sunTimes == GetSunTimesRange(p.params.lat, p.params.lng, start,
                                              p.params.days,
                                              sunAnswers(w, start, p.params.days))
                 loc      == GetTimezone(p.params.lat, p.params.lng, w.zone)
             IN  [resp |-> [status      |-> 200,
                            contentType |-> "text/calendar; charset=utf-8",
                            disposition |-> "attachment; filename=calsun.ics",
                            body        |-> <<"BEGIN:VCALENDAR">>],
                  cal  |-> [name   |-> calendarName(p.params.name, p.params.includeSunrise,
                                                    p.params.includeSunset),
                            events |-> addEvents(sunTimes, p.params,
                                                 locationStr(p.params), loc, 1)]]

\* every request that is done was answered as it would have been alone
AnsweredAsAlone ==
    \A r \in Requests :
        inflight[r].pc = "done" =>
            [resp |-> inflight[r].resp, cal |-> inflight[r].cal]
                = ServedAlone(inflight[r].query, world)

\* a step is taken by one handler: it writes nothing that the others hold, and
\* nothing of what all of them read
WritesOwnLocalsOnly ==
    /\ world' = world
    /\ \E r \in Requests : \A o \in Requests \ {r} : inflight'[o] = inflight[o]

\* C17: the handlers keep no state between calls and share none: however the
\* steps of requests served at the same time interleave, each request gets the
\* response it gets when served alone from the same start date, and no step of
\* one request writes data that another request reads.
C17_RequestsIndependent == []AnsweredAsAlone /\ [][WritesOwnLocalsOnly]_vars

\* two different requests were served at the same time and both are done,
\* each with a Yesterday line in its calendar
C17_Witness ==
    /\ \A r \in Requests :
        /\ inflight[r].pc = "done"
        /\ inflight[r].resp.status = 200
        /\ \E j \in 1..Len(inflight[r].cal.events) : HasYesterday(inflight[r].cal.events[j])
    /\ inflight["r1"].query # inflight["r2"].query

-----------------------------------------------------------------------------
(* Claims on the identifiers and on the day length *)

\* C21: within one response the identifiers of the entries are pairwise
\* distinct, also when the instants of the same-kind events of two consecutive
\* days of the range show the same calendar date.
C21_IdentifiersDistinct ==
    Served =>
        \A j, k \in 1..Len(cal.events) :
            j # k => cal.events[j].vevent.uid # cal.events[k].vevent.uid

\* seconds from the instant of the sunrise of the day described to the instant
\* of its sunset
ElapsedDaylight == args.day.Sunset.Time.unix - args.day.Sunrise.Time.unix

\* seconds from the wall clock of the sunrise to the wall clock of the sunset,
\* both read in the supplied zone
WallClockDaylight ==
    ElapsedDaylight + zoneOffset(args.loc, args.day.Sunset.Time.unix)
                    - zoneOffset(args.loc, args.day.Sunrise.Time.unix)

\* C22: the Day length line, when there is one, shows hours H and minutes M
\* with H >= 0, 0 <= M <= 59 and 60 * H + M the whole minutes that pass from
\* the instant of the sunrise to the instant of the sunset, the seconds
\* dropped: the time that passes, not the difference of the wall clocks.
C22_DayLengthElapsed ==
    (Described /\ DayHasBoth) =>
        \E H \in 0..24, M \in 0..59 :
            /\ desc[6] = <<"Day length: ">> \o fmtD(H) \o <<"h ">> \o fmtD(M) \o <<"m">>
            /\ 60 * H + M = ElapsedDaylight \div 60

\* the Sunday Copenhagen goes to summer time, sunrise at 00:30:00 and sunset at
\* 22:30:00 UTC: 22 hours pass, the wall clocks are 23 hours apart, and the
\* line reads 22h 0m
C22_Witness ==
    /\ Described /\ DayHasBoth
    /\ args.loc.name = "Europe/Copenhagen"
    /\ ElapsedDaylight = 22 * 3600
    /\ WallClockDaylight = 23 * 3600
    /\ desc[6] = <<"Day length: ", "2", "2", "h ", "0", "m">>

====
